---- MODULE Spec2Model ----
(***************************************************************************)
(* MAVLinkThread: the datagram transport (mavSocket), the outbound         *)
(* priority queue and the read/write loop (mavThread).                     *)
(*                                                                         *)
(* Scope of the socket model: the default address family and socket type   *)
(* (AF_INET, SOCK_DGRAM, mavSocket.py:33-34), so isUDP() is true.  The     *)
(* kernel is modelled as far as the code observes it: a bound, unconnected *)
(* datagram socket receives what is sent to its address; connect() assigns *)
(* a fresh ephemeral local address; a datagram nobody is bound for is      *)
(* dropped.                                                                *)
(***************************************************************************)
EXTENDS Integers, Sequences, FiniteSets, TLC

VARIABLES
    sock,           \* the mavSocket objects: SockIds -> record of fields
    ephemeral,      \* number of ephemeral local addresses the OS handed out
    lastCall,       \* history: the last call made on a mavSocket, its result
    live,           \* the mavSocket objects the application constructed
    trip,           \* history: progress of the calls of test_addressDiscovery
    writeQueue,     \* mavThread._writeQueue: entries pending, in put order
    seq,            \* mavThread._seq
    intentionallyExit, \* mavThread._intentionallyExit
    pc,             \* producer threads: position inside queueOutputMsg
    arg,            \* producer threads: (msg, priority) of the call in progress
    tmp,            \* producer threads: value read from _seq
    ret,            \* producer threads: return value of the last call
    producers,      \* the producer threads the application runs
    calls,          \* history: number of queueOutputMsg calls made
    accepted,       \* history: entries put on the queue, in put order
    pumpPc,         \* pump thread: position inside loop()
    mList,          \* pump thread: _readMsg's list
    wMsg,           \* pump thread: _loopInternals' wMsg
    taken,          \* history: entries returned by get_nowait, in order
    written,        \* history: messages handed to _ser.write, in order
    sunk,           \* history: messages passed to _processReadMsg, in order
    parsed,         \* history: messages parse_buffer returned, in order
    supPc,          \* pump thread: position inside the supervising loop
    thr,            \* threads calling the channel: position inside the call
    lock,           \* the channel's _readLock and _writeLock: their holders
    serialObj,      \* the mavSerial object: its serial.Serial
    serCall         \* history: the last call made on the mavSerial object

vars == <<sock, ephemeral, lastCall, live, trip, writeQueue, seq, intentionallyExit, pc,
          arg, tmp, ret, producers, calls, accepted, pumpPc, mList, wMsg,
          taken, written, sunk, parsed, supPc, thr, lock, serialObj, serCall>>

sockVars == <<sock, ephemeral, lastCall, live, trip>>
threadVars == <<writeQueue, seq, intentionallyExit, pc, arg, tmp, ret,
                producers, calls, accepted, pumpPc, mList, wMsg, taken,
                written, sunk, parsed, supPc>>
chanVars == <<thr, lock>>
serialVars == <<serialObj, serCall>>

-----------------------------------------------------------------------------
(* Bounds of the model *)

\* ephemeral addresses the OS hands out before the model stops connecting
MaxPorts == 2
\* datagrams a receive buffer holds; more are dropped
MaxBuf == 2
\* queueOutputMsg calls made in one behaviour
MaxCalls == 2

-----------------------------------------------------------------------------
(* Values *)

\* Python's None, where an address is expected
NoAddr == <<"None", 0>>
\* Python's None, where a message is expected
NoMsg == [type |-> "NoneType", id |-> 0]

\* b''
Empty == <<>>

\* the payload objects a producer passes, the k-th made in a behaviour:
\* a MAVLink_message, or an object of another type
Payloads(k) == {[type |-> t, id |-> k] : t \in {"MAVLink_message", "str"}}
\* the priorities of the tests
Priorities == {1, 5}

\* msg.pack(); msg.get_msgbuf(): one frame, start marker then the message
Pack(m) == <<"STX", m>>

\* MAVLink.parse_buffer: the messages of the frames in x
parse_buffer(x) == IF Len(x) = 2 /\ x[1] = "STX" THEN <<x[2]>> ELSE <<>>

\* what is written to a socket directly: b'', or a frame
Wire == {Empty, Pack([type |-> "MAVLink_message", id |-> 0])}

\* what the outside peer sends: a frame
PeerBytes == Pack([type |-> "MAVLink_message", id |-> 0])

\* the addresses of the tests
AddrA == <<"127.0.0.1", 10000>>
AddrR == <<"localhost", 10000>>
\* an outside peer that sends datagrams
AddrX == <<"peer", 1>>
\* the n-th local address assigned by connect()
EphemeralAddr(n) == <<"ephemeral", n>>

SockIds == {"A", "B", "R"}

NoSocket == [st |-> "none", addr |-> NoAddr, peer |-> NoAddr, buf |-> <<>>]

\* mavSocket.__init__
mavSocket(listenAddress, broadcastAddress) ==
    [ listenAddress |-> listenAddress,        \* history: constructor argument
      broadcastAddress |-> broadcastAddress,  \* history: constructor argument
      sRead |-> NoSocket,
      sWrite |-> NoSocket,
      AF_type |-> "AF_INET",
      SOCK_type |-> "SOCK_DGRAM",
      readAddress |-> listenAddress,
      writeAddress |-> broadcastAddress,
      rConnected |-> FALSE,
      wConnected |-> FALSE,
      connects |-> 0,          \* history: connect() calls made by the object
      heardFrom |-> NoAddr,    \* history: sender of the first datagram read
      wrote |-> FALSE ]        \* history: write() was called with a learnt peer

-----------------------------------------------------------------------------
(* mavSocket.  A world W is [sock, eph]: the socket objects and the number *)
(* of ephemeral addresses used; each method maps a world to a world.       *)

\* isUDP
isUDP(W, s) ==
    W.sock[s].SOCK_type = "SOCK_DGRAM" /\ W.sock[s].AF_type # "AF_UNIX"

\* _openReadPort with line 117 setting both flags
openReadPort_flags(W, s) ==
    LET o == W.sock[s] IN
    IF o.rConnected THEN [W |-> W, ret |-> TRUE]
    ELSE IF o.readAddress = NoAddr THEN [W |-> W, ret |-> FALSE]
    ELSE [W |-> [W EXCEPT !.sock[s].sRead =
                       [st |-> "open", addr |-> o.readAddress,
                        peer |-> NoAddr, buf |-> <<>>],
                    !.sock[s].rConnected = TRUE,
                    !.sock[s].wConnected = TRUE],
          ret |-> TRUE]

\* _openReadPort: socket(), bind(_readAddress)
openReadPort(W, s) ==
    LET o == W.sock[s] IN
    IF o.rConnected THEN [W |-> W, ret |-> TRUE]
    ELSE IF o.readAddress = NoAddr THEN [W |-> W, ret |-> FALSE]
    ELSE [W |-> [W EXCEPT !.sock[s].sRead =
                       [st |-> "open", addr |-> o.readAddress,
                        peer |-> NoAddr, buf |-> <<>>],
                    !.sock[s].rConnected = TRUE],
          ret |-> TRUE]

\* _openWritePort with the test of line 131 left out
openWritePort_unchecked(W, s) ==
    LET o == W.sock[s]
        local == EphemeralAddr(W.eph + 1) IN
    IF o.wConnected THEN [W |-> W, ret |-> TRUE]
    ELSE [W |-> [W EXCEPT !.sock[s].sWrite =
                       [st |-> "open", addr |-> local,
                        peer |-> o.writeAddress, buf |-> <<>>],
                    !.sock[s].readAddress =
                       IF o.readAddress = NoAddr /\ isUDP(W, s)
                       THEN local ELSE o.readAddress,
                    !.sock[s].wConnected = TRUE,
                    !.sock[s].connects = @ + 1,
                    !.eph = W.eph + 1],
          ret |-> TRUE]

\* _openWritePort with lines 148-149 left out
openWritePort_nodiscover(W, s) ==
    LET o == W.sock[s]
        local == EphemeralAddr(W.eph + 1) IN
    IF o.wConnected THEN [W |-> W, ret |-> TRUE]
    ELSE IF o.writeAddress = NoAddr THEN [W |-> W, ret |-> FALSE]
    ELSE [W |-> [W EXCEPT !.sock[s].sWrite =
                       [st |-> "open", addr |-> local,
                        peer |-> o.writeAddress, buf |-> <<>>],
                    !.sock[s].wConnected = TRUE,
                    !.sock[s].connects = @ + 1,
                    !.eph = W.eph + 1],
          ret |-> TRUE]

\* _openWritePort: socket(), connect(_writeAddress), getsockname()
openWritePort(W, s) ==
    LET o == W.sock[s]
        local == EphemeralAddr(W.eph + 1) IN
    IF o.wConnected THEN [W |-> W, ret |-> TRUE]
    ELSE IF o.writeAddress = NoAddr THEN [W |-> W, ret |-> FALSE]
    ELSE [W |-> [W EXCEPT !.sock[s].sWrite =
                       [st |-> "open", addr |-> local,
                        peer |-> o.writeAddress, buf |-> <<>>],
                    !.sock[s].readAddress =
                       IF o.readAddress = NoAddr /\ isUDP(W, s)
                       THEN local ELSE o.readAddress,
                    !.sock[s].wConnected = TRUE,
                    !.sock[s].connects = @ + 1,
                    !.eph = W.eph + 1],
          ret |-> TRUE]

\* openPort
openPort(W, s) ==
    LET r == openReadPort(W, s) IN
    IF isUDP(r.W, s) THEN openWritePort(r.W, s).W ELSE r.W

\* openPort: the exception that leaves it, "none" if it returns.  There is
\* no test of isOpen() and no raise in it, and both _open functions return
\* True for a direction that is bound
openPortRaises(W, s) == "none"

\* what close() raises: the attribute close of None does not exist
closeError(sk) == IF sk.st = "none" THEN "AttributeError" ELSE "none"

\* an except clause for OSError in the place of the bare one
exceptOSError(e) == IF e = "OSError" THEN "none" ELSE e

\* the bare except clauses of lines 171 and 178: what passes them
exceptAll(e) == "none"

\* closePort: the exception that leaves it, "none" if it returns
closePortRaises(W, s) ==
    IF exceptAll(closeError(W.sock[s].sRead)) # "none"
    THEN exceptAll(closeError(W.sock[s].sRead))
    ELSE exceptAll(closeError(W.sock[s].sWrite))

\* _closeReadPort: close() on None raises, the except clause swallows it
closeReadPort(W, s) ==
    IF W.sock[s].sRead.st = "none" THEN W
    ELSE [W EXCEPT !.sock[s].sRead.st = "closed",
                   !.sock[s].sRead.buf = <<>>,
                   !.sock[s].rConnected = FALSE]

\* _closeWritePort putting the write address back to the constructor's
closeWritePort_forget(W, s) ==
    IF W.sock[s].sWrite.st = "none" THEN W
    ELSE [W EXCEPT !.sock[s].sWrite.st = "closed",
                   !.sock[s].wConnected = FALSE,
                   !.sock[s].writeAddress = W.sock[s].broadcastAddress]

\* _closeWritePort
closeWritePort(W, s) ==
    IF W.sock[s].sWrite.st = "none" THEN W
    ELSE [W EXCEPT !.sock[s].sWrite.st = "closed",
                   !.sock[s].wConnected = FALSE]

\* closePort
closePort(W, s) == closeWritePort(closeReadPort(W, s), s)

\* the sockets a datagram for address dst is queued on
Listeners(W, dst) ==
    {t \in SockIds : W.sock[t].sRead.st = "open" /\ W.sock[t].sRead.addr = dst}

\* the kernel: a datagram from src to dst is queued on the unconnected
\* socket bound to dst, if there is one and its buffer has room
Deliver(W, src, dst, b) ==
    IF Listeners(W, dst) = {} THEN W
    ELSE LET t == CHOOSE t \in Listeners(W, dst) : TRUE IN
         IF Len(W.sock[t].sRead.buf) >= MaxBuf THEN W
         ELSE [W EXCEPT !.sock[t].sRead.buf =
                            Append(@, [m |-> b, addr |-> src])]

\* what recvfrom() raises on the non-blocking read socket: nothing is queued
recvError(W, s) ==
    IF openReadPort(W, s).ret /\ openReadPort(W, s).W.sock[s].sRead.buf = <<>>
    THEN "BlockingIOError" ELSE "none"

\* the except clause of read, line 205: what passes it
exceptWouldBlock(e) ==
    IF e \in {"socket.timeout", "BlockingIOError"} THEN "none" ELSE e

\* read: the exception that leaves it, "none" if it returns
readRaises(W, s) == exceptWouldBlock(recvError(W, s))

\* what send() raises when the datagram cannot be sent
SendErrors == {"socket.timeout", "ConnectionRefusedError"}

\* an except clause for socket.timeout in the place of line 229
exceptTimeout(e) == IF e = "socket.timeout" THEN "none" ELSE e

\* the except clause of write, line 229, except Exception: what passes it
exceptException(e) == "none"

\* read with the test of line 202 left out
read_relearn(W, s) ==
    LET r == openReadPort(W, s)
        o == r.W.sock[s] IN
    IF ~r.ret THEN [W |-> W, ret |-> Empty, addr |-> NoAddr]
    ELSE IF o.sRead.buf = <<>> THEN [W |-> r.W, ret |-> Empty, addr |-> NoAddr]
    ELSE LET d == Head(o.sRead.buf) IN
         [W |-> [r.W EXCEPT !.sock[s].sRead.buf = Tail(@),
                            !.sock[s].writeAddress = d.addr,
                            !.sock[s].heardFrom =
                                IF @ = NoAddr THEN d.addr ELSE @],
          ret |-> d.m, addr |-> d.addr]

\* read with lines 202-203 left out
read_nolearn(W, s) ==
    LET r == openReadPort(W, s)
        o == r.W.sock[s] IN
    IF ~r.ret THEN [W |-> W, ret |-> Empty, addr |-> NoAddr]
    ELSE IF o.sRead.buf = <<>> THEN [W |-> r.W, ret |-> Empty, addr |-> NoAddr]
    ELSE LET d == Head(o.sRead.buf) IN
         [W |-> [r.W EXCEPT !.sock[s].sRead.buf = Tail(@),
                            !.sock[s].heardFrom =
                                IF @ = NoAddr THEN d.addr ELSE @],
          ret |-> d.m, addr |-> d.addr]

\* read: recvfrom() gives (m, addr) or raises BlockingIOError; the write
\* address is learnt.  ret: the bytes returned; addr: the sender of the
\* datagram received, NoAddr if none was
read(W, s) ==
    LET r == openReadPort(W, s)
        o == r.W.sock[s] IN
    IF ~r.ret THEN [W |-> W, ret |-> Empty, addr |-> NoAddr]
    ELSE IF o.sRead.buf = <<>> THEN [W |-> r.W, ret |-> Empty, addr |-> NoAddr]
    ELSE LET d == Head(o.sRead.buf) IN
         [W |-> [r.W EXCEPT !.sock[s].sRead.buf = Tail(@),
                            !.sock[s].writeAddress =
                                IF @ = NoAddr THEN d.addr ELSE @,
                            !.sock[s].heardFrom =
                                IF @ = NoAddr THEN d.addr ELSE @],
          ret |-> d.m, addr |-> d.addr]

\* write: send(b) on the connected socket.  sent: what was handed to the
\* kernel by this call, << >> if nothing
write(W, s, b) ==
    LET r == openWritePort(W, s)
        o == r.W.sock[s] IN
    IF ~r.ret THEN [W |-> W, sent |-> <<>>]
    ELSE [W |-> [Deliver(r.W, o.sWrite.addr, o.sWrite.peer, b)
                    EXCEPT !.sock[s].wrote = @ \/ o.broadcastAddress = NoAddr],
          sent |-> <<[from |-> o.sWrite.addr, to |-> o.sWrite.peer, m |-> b]>>]

\* write when send() raises: the write socket is connected, nothing is
\* handed to the kernel
writeFails(W, s) ==
    LET r == openWritePort(W, s) IN
    IF ~r.ret THEN W
    ELSE [r.W EXCEPT !.sock[s].wrote =
                         @ \/ r.W.sock[s].broadcastAddress = NoAddr]

\* isOpen with or for and
isOpen_either(W, s) == W.sock[s].rConnected \/ W.sock[s].wConnected

\* isOpen
isOpen(W, s) == W.sock[s].rConnected /\ W.sock[s].wConnected

\* flush: while self.read() != b'': pass
RECURSIVE flush(_, _)
flush(W, s) ==
    LET r == read(W, s) IN
    IF r.ret = Empty THEN r.W ELSE flush(r.W, s)

-----------------------------------------------------------------------------
(* Calls on the sockets A (send-to address only), B (listen address only)  *)
(* and R (both, the same address: written data appears on the read port).  *)

World == [sock |-> sock, eph |-> ephemeral]

\* a call that connects needs a free ephemeral address in the model
Connects(s) == ~sock[s].wConnected /\ sock[s].writeAddress # NoAddr

\* test_addressDiscovery, lines 139-150: A writes, (A reads,) B reads what A
\* sent, (A reads,) B writes, A reads.  bytes: what B wrote; bound: whether
\* A's read socket was bound when B wrote
TripNext(op, s, b, W, addr) ==
    LET ph == trip.phase
        off == [phase |-> "off", bytes |-> Empty, bound |-> FALSE] IN
    IF ph = "start" /\ op = "openPort" THEN trip
    ELSE IF ph = "start" /\ op = "write" /\ s = "A"
        THEN [trip EXCEPT !.phase = "aWrote"]
    ELSE IF ph \in {"aWrote", "bRead"} /\ op = "read" /\ s = "A" THEN trip
    ELSE IF ph = "aWrote" /\ op = "read" /\ s = "B"
            /\ addr = sock["A"].sWrite.addr
        THEN [trip EXCEPT !.phase = "bRead"]
    ELSE IF ph = "bRead" /\ op = "write" /\ s = "B"
        THEN [phase |-> "bWrote", bytes |-> b, bound |-> sock["A"].rConnected]
    ELSE IF ph = "bWrote" /\ op = "read" /\ s = "A"
        THEN [trip EXCEPT !.phase = "aRead"]
    ELSE off

\* history: the object before a call; the content of its receive buffer is
\* kept for write calls only
Before(op, s) ==
    IF op = "write" THEN sock[s] ELSE [sock[s] EXCEPT !.sRead.buf = <<>>]

\* the exception that leaves a call, "none" if it returns
Raised(op, s) ==
    IF op = "closePort" THEN closePortRaises(World, s)
    ELSE IF op = "openPort" THEN openPortRaises(World, s)
    ELSE IF op = "read" THEN readRaises(World, s)
    ELSE "none"

\* what the socket call made inside a call raised, "none" if nothing
Cond(op, s) == IF op = "read" THEN recvError(World, s) ELSE "none"

Called(op, s, b, W, result, sent, addr) ==
    /\ sock' = W.sock
    /\ ephemeral' = W.eph
    /\ lastCall' = [op |-> op, s |-> s, b |-> b, ret |-> result, sent |-> sent,
                    addr |-> addr, pre |-> Before(op, s),
                    raised |-> Raised(op, s), cond |-> Cond(op, s)]
    /\ trip' = TripNext(op, s, b, W, addr)
    /\ UNCHANGED <<live, threadVars, chanVars, serialVars>>

OpenPort(s) ==
    /\ Connects(s) => ephemeral < MaxPorts
    /\ Called("openPort", s, Empty, openPort(World, s), Empty, <<>>, NoAddr)

ClosePort(s) ==
    /\ Called("closePort", s, Empty, closePort(World, s), Empty, <<>>, NoAddr)

Read(s) ==
    LET r == read(World, s) IN
    /\ Called("read", s, Empty, r.W, r.ret, <<>>, r.addr)

Write(s, b) ==
    LET r == write(World, s, b) IN
    /\ Connects(s) => ephemeral < MaxPorts
    /\ Called("write", s, b, r.W, Empty, r.sent, NoAddr)

\* a write() whose send() raises e
WriteFails(s, b, e) ==
    /\ openWritePort(World, s).ret
    /\ Connects(s) => ephemeral < MaxPorts
    /\ sock' = writeFails(World, s).sock
    /\ ephemeral' = writeFails(World, s).eph
    /\ lastCall' = [op |-> "write", s |-> s, b |-> b, ret |-> Empty,
                    sent |-> <<>>, addr |-> NoAddr, pre |-> Before("write", s),
                    raised |-> exceptException(e), cond |-> e]
    /\ trip' = TripNext("writeFails", s, b, writeFails(World, s), NoAddr)
    /\ UNCHANGED <<live, threadVars, chanVars, serialVars>>

Flush(s) ==
    /\ Called("flush", s, Empty, flush(World, s), Empty, <<>>, NoAddr)

\* the outside peer sends a datagram to a configured listen address
PeerSend(t, b) ==
    /\ sock[t].listenAddress # NoAddr
    /\ sock[t].sRead.st = "open"
    /\ Len(sock[t].sRead.buf) < MaxBuf
    /\ Called("peerSend", t, b,
              Deliver(World, AddrX, sock[t].sRead.addr, b), Empty, <<>>,
              NoAddr)

-----------------------------------------------------------------------------
(* read(), write() and flush() on one mavSocket, called by several threads  *)
(* and taken step by step: the test that opens the port, acquire, the       *)
(* socket call, release.  The outside peer sends meanwhile.                 *)

Threads == {"t1", "t2"}

\* the channel instance the threads share
Chan == "R"

\* cond: what the socket call made inside the call raised; raised: what
\* left the call (history)
IdleThread == [pc |-> "idle", op |-> "none", b |-> Empty, m |-> Empty,
               cond |-> "none", raised |-> "none"]

\* what recvfrom() or send() raises on a socket object that was closed
closedError(sk) == IF sk.st = "closed" THEN "OSError" ELSE "none"

\* one lock for both directions
LockFor_single(d) == "read"

\* read() takes _readLock, write() takes _writeLock
LockFor(d) == d

\* Lock.acquire() returns when the lock is free
CanAcquire(d) == lock[LockFor(d)] = "free"

\* read, line 194; op is "read", or "flush" for the reads flush() makes
ThreadRead(t, op) ==
    LET r == openReadPort(World, Chan) IN
    /\ thr[t].pc = "idle"
    /\ sock' = r.W.sock
    /\ thr' = [thr EXCEPT ![t] =
                 IF r.ret THEN [IdleThread EXCEPT !.pc = "rAcquire", !.op = op]
                 ELSE IdleThread]
    /\ UNCHANGED <<ephemeral, lastCall, live, trip, lock, threadVars, serialVars>>

\* read, line 197
AcquireRead(t) ==
    /\ thr[t].pc = "rAcquire"
    /\ CanAcquire("read")
    /\ lock' = [lock EXCEPT ![LockFor("read")] = t]
    /\ thr' = [thr EXCEPT ![t].pc = "rRecv"]
    /\ UNCHANGED <<sockVars, threadVars, serialVars>>

\* read, lines 199-206: recvfrom() on self._sRead, which closePort() may
\* have closed since the test of line 194
Recv(t) ==
    LET r == read(World, Chan)
        e == closedError(sock[Chan].sRead) IN
    /\ thr[t].pc = "rRecv"
    /\ IF e = "none"
       THEN /\ sock' = r.W.sock
            /\ thr' = [thr EXCEPT ![t].pc = "rRelease", ![t].m = r.ret]
       ELSE /\ sock' = sock
            /\ thr' = [thr EXCEPT ![t].pc = "rRelease", ![t].cond = e,
                                  ![t].raised = exceptWouldBlock(e)]
    /\ UNCHANGED <<ephemeral, lastCall, live, trip, lock, threadVars, serialVars>>

\* the call has ended: what it met stays on record (history)
Ended(r) == [IdleThread EXCEPT !.cond = r.cond, !.raised = r.raised]

\* read with the release after the try statement, not in a finally clause
ReleaseRead_noFinally(t) ==
    /\ thr[t].pc = "rRelease"
    /\ lock' = IF thr[t].raised = "none"
               THEN [lock EXCEPT ![LockFor("read")] = "free"] ELSE lock
    /\ thr' = [thr EXCEPT ![t] =
                 IF thr[t].op = "flush" /\ thr[t].m # Empty
                 THEN [IdleThread EXCEPT !.pc = "rAcquire", !.op = "flush"]
                 ELSE Ended(thr[t])]
    /\ UNCHANGED <<sockVars, threadVars, serialVars>>

\* read, lines 208-211; flush, line 261: another read() unless b'' came back
ReleaseRead(t) ==
    /\ thr[t].pc = "rRelease"
    /\ lock' = [lock EXCEPT ![LockFor("read")] = "free"]
    /\ thr' = [thr EXCEPT ![t] =
                 IF thr[t].op = "flush" /\ thr[t].m # Empty
                 THEN [IdleThread EXCEPT !.pc = "rAcquire", !.op = "flush"]
                 ELSE Ended(thr[t])]
    /\ UNCHANGED <<sockVars, threadVars, serialVars>>

\* write, line 221
ThreadWrite(t, b) ==
    LET r == openWritePort(World, Chan) IN
    /\ thr[t].pc = "idle"
    /\ Connects(Chan) => ephemeral < MaxPorts
    /\ sock' = r.W.sock
    /\ ephemeral' = r.W.eph
    /\ thr' = [thr EXCEPT ![t] =
                 IF r.ret
                 THEN [IdleThread EXCEPT !.pc = "wAcquire", !.op = "write",
                                         !.b = b]
                 ELSE IdleThread]
    /\ UNCHANGED <<lastCall, live, trip, lock, threadVars, serialVars>>

\* write, line 224
AcquireWrite(t) ==
    /\ thr[t].pc = "wAcquire"
    /\ CanAcquire("write")
    /\ lock' = [lock EXCEPT ![LockFor("write")] = t]
    /\ thr' = [thr EXCEPT ![t].pc = "wSend"]
    /\ UNCHANGED <<sockVars, threadVars, serialVars>>

\* write, lines 226-230: send() on self._sWrite, which closePort() may have
\* closed since the test of line 221
Send(t) ==
    LET r == write(World, Chan, thr[t].b)
        e == closedError(sock[Chan].sWrite) IN
    /\ thr[t].pc = "wSend"
    /\ IF e = "none"
       THEN /\ sock' = r.W.sock
            /\ thr' = [thr EXCEPT ![t].pc = "wRelease"]
       ELSE /\ sock' = sock
            /\ thr' = [thr EXCEPT ![t].pc = "wRelease", ![t].cond = e,
                                  ![t].raised = exceptException(e)]
    /\ UNCHANGED <<ephemeral, lastCall, live, trip, lock, threadVars, serialVars>>

\* write, lines 232-233
ReleaseWrite(t) ==
    /\ thr[t].pc = "wRelease"
    /\ lock' = [lock EXCEPT ![LockFor("write")] = "free"]
    /\ thr' = [thr EXCEPT ![t] = Ended(thr[t])]
    /\ UNCHANGED <<sockVars, threadVars, serialVars>>

\* _openReadPort, lines 105-117: socket(), bind(_readAddress); the socket
\* object self._sRead named before is dropped with what was queued on it
bindRead(W, s) ==
    [W EXCEPT !.sock[s].sRead = [st |-> "open", addr |-> W.sock[s].readAddress,
                                 peer |-> NoAddr, buf |-> <<>>],
              !.sock[s].rConnected = TRUE]

\* _openWritePort, lines 135-151: socket(), connect(_writeAddress),
\* getsockname()
connectWrite(W, s) ==
    LET o == W.sock[s]
        local == EphemeralAddr(W.eph + 1) IN
    [W EXCEPT !.sock[s].sWrite = [st |-> "open", addr |-> local,
                                  peer |-> o.writeAddress, buf |-> <<>>],
              !.sock[s].readAddress =
                  IF o.readAddress = NoAddr /\ isUDP(W, s)
                  THEN local ELSE o.readAddress,
              !.sock[s].wConnected = TRUE,
              !.sock[s].connects = @ + 1,
              !.eph = W.eph + 1]

\* read, line 194, _openReadPort, lines 99-104: the tests
OpenReadTest(t) ==
    /\ thr[t].pc = "idle"
    /\ thr' = [thr EXCEPT ![t] =
                 IF sock[Chan].rConnected
                 THEN [IdleThread EXCEPT !.pc = "rAcquire", !.op = "read"]
                 ELSE IF sock[Chan].readAddress = NoAddr THEN IdleThread
                 ELSE [IdleThread EXCEPT !.pc = "rCreate", !.op = "read"]]
    /\ UNCHANGED <<sockVars, lock, threadVars, serialVars>>

\* _openReadPort, lines 105-119, by a thread that passed the tests
ReadCreate(t) ==
    /\ thr[t].pc = "rCreate"
    /\ sock' = bindRead(World, Chan).sock
    /\ thr' = [thr EXCEPT ![t].pc = "rAcquire"]
    /\ UNCHANGED <<ephemeral, lastCall, live, trip, lock, threadVars, serialVars>>

\* write, line 221, _openWritePort, lines 128-133: the tests
OpenWriteTest(t, b) ==
    /\ thr[t].pc = "idle"
    /\ thr' = [thr EXCEPT ![t] =
                 IF sock[Chan].wConnected
                 THEN [IdleThread EXCEPT !.pc = "wAcquire", !.op = "write",
                                         !.b = b]
                 ELSE IF sock[Chan].writeAddress = NoAddr THEN IdleThread
                 ELSE [IdleThread EXCEPT !.pc = "wCreate", !.op = "write",
                                         !.b = b]]
    /\ UNCHANGED <<sockVars, lock, threadVars, serialVars>>

\* _openWritePort, lines 135-153, by a thread that passed the tests
WriteCreate(t) ==
    /\ thr[t].pc = "wCreate"
    /\ ephemeral < MaxPorts
    /\ sock' = connectWrite(World, Chan).sock
    /\ ephemeral' = connectWrite(World, Chan).eph
    /\ thr' = [thr EXCEPT ![t].pc = "wAcquire"]
    /\ UNCHANGED <<lastCall, live, trip, lock, threadVars, serialVars>>

\* closePort, called by a thread that is in no other call: no lock is taken
ThreadClosePort(t) ==
    /\ thr[t].pc = "idle"
    /\ sock' = closePort(World, Chan).sock
    /\ UNCHANGED <<ephemeral, lastCall, live, trip, chanVars, threadVars,
                   serialVars>>

\* the steps of a thread inside a call
ThreadStep(t) ==
    \/ AcquireRead(t)
    \/ Recv(t)
    \/ ReleaseRead(t)
    \/ AcquireWrite(t)
    \/ Send(t)
    \/ ReleaseWrite(t)

-----------------------------------------------------------------------------
(* mavSerial: a serial.Serial with a read timeout and a write timeout.  The *)
(* device is modelled as far as the code observes it: the bytes received    *)
(* and not yet read, read(1) returning b'' when the timeout passes with no  *)
(* byte, write raising SerialTimeoutException when the write timeout        *)
(* passes, and any transfer on a port that is not open raising              *)
(* PortNotOpenError, a SerialException.                                     *)

\* the bytes the device delivers
SerialBytes == {"STX", "x"}

\* no mavSerial object was constructed
NoSerial == [made |-> FALSE, is_open |-> FALSE, rx |-> <<>>]

\* mavSerial.__init__
mavSerial == [made |-> TRUE, is_open |-> FALSE, rx |-> <<>>]

NoSerCall == [op |-> "none", b |-> Empty, ret |-> Empty, raised |-> "none",
              cond |-> "none"]

\* the except clauses of lines 81 and 103: what passes them
exceptSerialTimeout(e) == IF e = "SerialTimeoutException" THEN "none" ELSE e

\* isOpen
serial_isOpen(o) == o.is_open

\* openPort
SerialOpenPort ==
    /\ serialObj.made
    /\ IF serial_isOpen(serialObj)
       THEN /\ serialObj' = serialObj
            /\ serCall' = [NoSerCall EXCEPT !.op = "openPort",
                                            !.raised = "Port already open"]
       ELSE /\ serialObj' = [serialObj EXCEPT !.is_open = TRUE]
            /\ serCall' = [NoSerCall EXCEPT !.op = "openPort"]
    /\ UNCHANGED <<sockVars, threadVars, chanVars>>

\* closePort
SerialClosePort ==
    /\ serialObj.made
    /\ serialObj' = [serialObj EXCEPT !.is_open = FALSE, !.rx = <<>>]
    /\ serCall' = [NoSerCall EXCEPT !.op = "closePort"]
    /\ UNCHANGED <<sockVars, threadVars, chanVars>>

\* read: one byte, or b'' when the read timeout passes
SerialRead ==
    LET cond == IF ~serialObj.is_open THEN "PortNotOpenError"
                ELSE IF serialObj.rx = <<>> THEN "timeout" ELSE "none" IN
    /\ serialObj.made
    /\ serialObj' = IF cond = "none" THEN [serialObj EXCEPT !.rx = Tail(@)]
                    ELSE serialObj
    /\ serCall' = [op |-> "read", b |-> Empty,
                   ret |-> IF cond = "none" THEN <<Head(serialObj.rx)>>
                           ELSE Empty,
                   raised |-> IF cond = "timeout" THEN "none"
                              ELSE exceptSerialTimeout(cond),
                   cond |-> cond]
    /\ UNCHANGED <<sockVars, threadVars, chanVars>>

\* write; late: the write timeout passes before the bytes are out
SerialWrite(b, late) ==
    LET cond == IF ~serialObj.is_open THEN "PortNotOpenError"
                ELSE IF late THEN "SerialTimeoutException" ELSE "none" IN
    /\ serialObj.made
    /\ serialObj' = serialObj
    /\ serCall' = [op |-> "write", b |-> b, ret |-> Empty,
                   raised |-> exceptSerialTimeout(cond), cond |-> cond]
    /\ UNCHANGED <<sockVars, threadVars, chanVars>>

\* flush: flushInput(), flushOutput()
SerialFlush ==
    LET cond == IF ~serialObj.is_open THEN "PortNotOpenError" ELSE "none" IN
    /\ serialObj.made
    /\ serialObj' = [serialObj EXCEPT !.rx = <<>>]
    /\ serCall' = [NoSerCall EXCEPT !.op = "flush", !.raised = cond,
                                    !.cond = cond]
    /\ UNCHANGED <<sockVars, threadVars, chanVars>>

\* the device receives a byte
SerialReceive(x) ==
    /\ serialObj.made /\ serialObj.is_open
    /\ Len(serialObj.rx) < MaxBuf
    /\ serialObj' = [serialObj EXCEPT !.rx = Append(@, x)]
    /\ UNCHANGED <<serCall, sockVars, threadVars, chanVars>>

Serial ==
    \/ SerialOpenPort
    \/ SerialClosePort
    \/ SerialRead
    \/ \E b \in SerialBytes, late \in BOOLEAN : SerialWrite(<<b>>, late)
    \/ SerialFlush
    \/ \E x \in SerialBytes : SerialReceive(x)

-----------------------------------------------------------------------------
(* read() and write() on the mavSerial object, called by several threads    *)
(* and taken step by step: acquire, the transfer, release                   *)

\* read, line 75: the call
SerialThreadRead(t) ==
    /\ serialObj.made
    /\ thr[t].pc = "idle"
    /\ thr' = [thr EXCEPT ![t] =
                 [IdleThread EXCEPT !.pc = "srAcquire", !.op = "read"]]
    /\ UNCHANGED <<lock, sockVars, threadVars, serialVars>>

\* read, line 76
SerialAcquireRead(t) ==
    /\ thr[t].pc = "srAcquire"
    /\ CanAcquire("read")
    /\ lock' = [lock EXCEPT ![LockFor("read")] = t]
    /\ thr' = [thr EXCEPT ![t].pc = "srRead"]
    /\ UNCHANGED <<sockVars, threadVars, serialVars>>

\* read, lines 78-84
SerialTransferRead(t) ==
    LET cond == IF ~serialObj.is_open THEN "PortNotOpenError"
                ELSE IF serialObj.rx = <<>> THEN "timeout" ELSE "none" IN
    /\ thr[t].pc = "srRead"
    /\ serialObj' = IF cond = "none" THEN [serialObj EXCEPT !.rx = Tail(@)]
                    ELSE serialObj
    /\ thr' = [thr EXCEPT ![t].pc = "srRelease",
                          ![t].m = IF cond = "none"
                                   THEN <<Head(serialObj.rx)>> ELSE Empty,
                          ![t].cond = cond,
                          ![t].raised = IF cond = "timeout" THEN "none"
                                        ELSE exceptSerialTimeout(cond)]
    /\ UNCHANGED <<lock, serCall, sockVars, threadVars>>

\* read, lines 86-89
SerialReleaseRead(t) ==
    /\ thr[t].pc = "srRelease"
    /\ lock' = [lock EXCEPT ![LockFor("read")] = "free"]
    /\ thr' = [thr EXCEPT ![t] = Ended(thr[t])]
    /\ UNCHANGED <<sockVars, threadVars, serialVars>>

\* write, line 97: the call
SerialThreadWrite(t, b) ==
    /\ serialObj.made
    /\ thr[t].pc = "idle"
    /\ thr' = [thr EXCEPT ![t] =
                 [IdleThread EXCEPT !.pc = "swAcquire", !.op = "write",
                                    !.b = b]]
    /\ UNCHANGED <<lock, sockVars, threadVars, serialVars>>

\* write, line 98
SerialAcquireWrite(t) ==
    /\ thr[t].pc = "swAcquire"
    /\ CanAcquire("write")
    /\ lock' = [lock EXCEPT ![LockFor("write")] = t]
    /\ thr' = [thr EXCEPT ![t].pc = "swWrite"]
    /\ UNCHANGED <<sockVars, threadVars, serialVars>>

\* write, lines 100-104; late: the write timeout passes
SerialTransferWrite(t, late) ==
    LET cond == IF ~serialObj.is_open THEN "PortNotOpenError"
                ELSE IF late THEN "SerialTimeoutException" ELSE "none" IN
    /\ thr[t].pc = "swWrite"
    /\ thr' = [thr EXCEPT ![t].pc = "swRelease", ![t].cond = cond,
                          ![t].raised = exceptSerialTimeout(cond)]
    /\ UNCHANGED <<lock, sockVars, threadVars, serialVars>>

\* write, lines 106-107
SerialReleaseWrite(t) ==
    /\ thr[t].pc = "swRelease"
    /\ lock' = [lock EXCEPT ![LockFor("write")] = "free"]
    /\ thr' = [thr EXCEPT ![t] = Ended(thr[t])]
    /\ UNCHANGED <<sockVars, threadVars, serialVars>>

\* the steps of a thread inside a call on the mavSerial object
SerialThreadStep(t) ==
    \/ SerialAcquireRead(t)
    \/ SerialTransferRead(t)
    \/ SerialReleaseRead(t)
    \/ SerialAcquireWrite(t)
    \/ \E late \in BOOLEAN : SerialTransferWrite(t, late)
    \/ SerialReleaseWrite(t)

-----------------------------------------------------------------------------
(* mavThread: the write queue and the producer threads *)

Producers == {"p1", "p2"}

\* isinstance( msg, self._mavLib.MAVLink_message )
IsMAVLinkMessage_any(m) == TRUE
IsMAVLinkMessage(m) == m.type = "MAVLink_message"

\* self._seq += 1, the value stored for the value loaded
NextSeq_same(s) == s
NextSeq(s) == s + 1

\* the order of the queued tuples (priority, seq, msg) as far as priority
\* and seq decide it; on a tie Python compares the payloads, which the
\* message type leaves open
TupleLess_desc(a, b) ==
    \/ a.priority > b.priority
    \/ a.priority = b.priority /\ a.seq < b.seq
TupleLess(a, b) ==
    \/ a.priority < b.priority
    \/ a.priority = b.priority /\ a.seq < b.seq

\* PriorityQueue.get_nowait: the positions of the entries no other is less than
Least(q) == {i \in DOMAIN q : \A j \in DOMAIN q : ~TupleLess(q[j], q[i])}

Remove(q, i) == SubSeq(q, 1, i - 1) \o SubSeq(q, i + 1, Len(q))

\* queueOutputMsg, line 119: a call; an invalid payload returns False
QueueOutputMsg(p, m, priority) ==
    /\ p \in producers
    /\ pc[p] = "idle"
    /\ calls < MaxCalls
    /\ arg' = [arg EXCEPT ![p] = [msg |-> m, priority |-> priority]]
    /\ calls' = calls + 1
    /\ IF IsMAVLinkMessage(m)
       THEN pc' = [pc EXCEPT ![p] = "tuple"] /\ ret' = [ret EXCEPT ![p] = <<>>]
       ELSE pc' = [pc EXCEPT ![p] = "idle"] /\ ret' = [ret EXCEPT ![p] = <<FALSE>>]
    /\ UNCHANGED <<writeQueue, seq, intentionallyExit, tmp, accepted, pumpPc,
                   mList, wMsg, taken, written, sunk, parsed, producers>>
    /\ UNCHANGED <<sockVars, chanVars, serialVars, supPc>>

\* line 122, the argument (priority, self._seq, msg) is built: _seq is read
BuildTuple(p) ==
    /\ pc[p] = "tuple"
    /\ tmp' = [tmp EXCEPT ![p] = seq]
    /\ pc' = [pc EXCEPT ![p] = "put"]
    /\ UNCHANGED <<writeQueue, seq, intentionallyExit, arg, ret, accepted,
                   calls, pumpPc, mList, wMsg, taken, written, sunk, parsed, producers>>
    /\ UNCHANGED <<sockVars, chanVars, serialVars, supPc>>

\* line 122, PriorityQueue.put.  n numbers the entries in put order (history)
Put(p) ==
    LET e == [priority |-> arg[p].priority, seq |-> tmp[p], msg |-> arg[p].msg,
              n |-> Len(accepted) + 1] IN
    /\ pc[p] = "put"
    /\ writeQueue' = Append(writeQueue, e)
    /\ accepted' = Append(accepted, e)
    /\ pc' = [pc EXCEPT ![p] = "load"]
    /\ UNCHANGED <<seq, intentionallyExit, arg, tmp, ret, calls, pumpPc,
                   mList, wMsg, taken, written, sunk, parsed, producers>>
    /\ UNCHANGED <<sockVars, chanVars, serialVars, supPc>>

\* line 123, self._seq += 1: the load
LoadSeq(p) ==
    /\ pc[p] = "load"
    /\ tmp' = [tmp EXCEPT ![p] = seq]
    /\ pc' = [pc EXCEPT ![p] = "store"]
    /\ UNCHANGED <<writeQueue, seq, intentionallyExit, arg, ret, accepted,
                   calls, pumpPc, mList, wMsg, taken, written, sunk, parsed, producers>>
    /\ UNCHANGED <<sockVars, chanVars, serialVars, supPc>>

\* line 123, self._seq += 1: the store; line 125, return True
StoreSeq(p) ==
    /\ pc[p] = "store"
    /\ seq' = NextSeq(tmp[p])
    /\ tmp' = [tmp EXCEPT ![p] = 0]
    /\ ret' = [ret EXCEPT ![p] = <<TRUE>>]
    /\ pc' = [pc EXCEPT ![p] = "idle"]
    /\ UNCHANGED <<writeQueue, intentionallyExit, arg, accepted, calls,
                   pumpPc, mList, wMsg, taken, written, sunk, parsed, producers>>
    /\ UNCHANGED <<sockVars, chanVars, serialVars, supPc>>

\* stopLoop
StopLoop ==
    /\ intentionallyExit' = TRUE
    /\ UNCHANGED <<writeQueue, seq, pc, arg, tmp, ret, accepted, calls, pumpPc,
                   mList, wMsg, taken, written, sunk, parsed, producers>>
    /\ UNCHANGED <<sockVars, chanVars, serialVars, supPc>>

-----------------------------------------------------------------------------
(* mavThread.loop on the socket R, run by the pump thread *)

Ser == "R"

pumpOnly == <<writeQueue, seq, intentionallyExit, pc, arg, tmp, ret,
              producers, calls, accepted, taken, written, sunk, parsed, mList, wMsg>>

\* Thread(target = mav.loop).start()
StartLoop ==
    /\ pumpPc = "new"
    /\ pumpPc' = "entry"
    /\ UNCHANGED pumpOnly
    /\ UNCHANGED <<sockVars, chanVars, serialVars, supPc>>

\* loop, line 136
LoopEntry ==
    /\ pumpPc = "entry"
    /\ intentionallyExit' = FALSE
    /\ pumpPc' = "open"
    /\ UNCHANGED <<writeQueue, seq, pc, arg, tmp, ret, producers, calls,
                   accepted, taken, written, sunk, parsed, mList, wMsg>>
    /\ UNCHANGED <<sockVars, chanVars, serialVars, supPc>>

\* loop, lines 138-141: open the port if it is not open, flush
LoopOpen ==
    LET W1 == IF isOpen(World, Ser) THEN World ELSE openPort(World, Ser)
        W2 == flush(W1, Ser) IN
    /\ pumpPc = "open"
    /\ Connects(Ser) => ephemeral < MaxPorts
    /\ sock' = W2.sock
    /\ ephemeral' = W2.eph
    /\ pumpPc' = "top"
    /\ UNCHANGED pumpOnly
    /\ UNCHANGED <<lastCall, live, trip, chanVars, serialVars, supPc>>

\* loop, line 143: while not self._intentionallyExit
LoopTop ==
    /\ pumpPc = "top"
    /\ IF intentionallyExit
       THEN pumpPc' = "closed" /\ mList' = mList
       ELSE pumpPc' = "read" /\ mList' = <<>>
    /\ UNCHANGED <<writeQueue, seq, intentionallyExit, pc, arg, tmp, ret,
                   producers, calls, accepted, taken, written, sunk, parsed, wMsg>>
    /\ UNCHANGED <<sockVars, chanVars, serialVars, supPc>>

\* list.extend with the new messages put in front
extend_front(l, msg) == msg \o l

\* mList.extend( msg ), line 248
extend(l, msg) == l \o msg

\* _readMsg, lines 239-248: one pass of the while loop
ReadMsg ==
    LET r == read(World, Ser) IN
    /\ pumpPc = "read"
    /\ sock' = r.W.sock
    /\ ephemeral' = r.W.eph
    /\ IF r.ret = Empty
       THEN pumpPc' = "get" /\ mList' = mList
       ELSE pumpPc' = "read" /\ mList' = extend(mList, parse_buffer(r.ret))
    /\ parsed' = IF r.ret = Empty THEN parsed
                 ELSE parsed \o parse_buffer(r.ret)
    /\ UNCHANGED <<writeQueue, seq, intentionallyExit, pc, arg, tmp, ret,
                   producers, calls, accepted, taken, written, sunk, wMsg>>
    /\ UNCHANGED <<lastCall, live, trip, chanVars, serialVars, supPc>>

\* _getWriteMsg.  had: the number of entries put so far (history)
GetWriteMsg ==
    /\ pumpPc = "get"
    /\ IF writeQueue = <<>>
       THEN wMsg' = NoMsg /\ UNCHANGED <<writeQueue, taken>>
       ELSE \E i \in Least(writeQueue) :
              /\ wMsg' = writeQueue[i].msg
              /\ writeQueue' = Remove(writeQueue, i)
              /\ taken' = Append(taken, [e |-> writeQueue[i],
                                         had |-> Len(accepted)])
    /\ pumpPc' = "process"
    /\ UNCHANGED <<seq, intentionallyExit, pc, arg, tmp, ret, producers,
                   calls, accepted, written, sunk, parsed, mList>>
    /\ UNCHANGED <<sockVars, chanVars, serialVars, supPc>>

\* _loopInternals, lines 165-170: rMsg is the list _readMsg returned, which
\* is never None, so the sleep of line 166 is not reached and the sink is
\* called with the list
ProcessReadMsg ==
    /\ pumpPc = "process"
    /\ sunk' = sunk \o mList
    /\ pumpPc' = IF wMsg # NoMsg THEN "write" ELSE "top"
    /\ UNCHANGED <<writeQueue, seq, intentionallyExit, pc, arg, tmp, ret,
                   producers, calls, accepted, taken, written, mList, wMsg,
                   parsed>>
    /\ UNCHANGED <<sockVars, chanVars, serialVars, supPc>>

\* _writeMsg: pack the message, write it to the channel
WriteMsg ==
    LET r == write(World, Ser, Pack(wMsg)) IN
    /\ pumpPc = "write"
    /\ Connects(Ser) => ephemeral < MaxPorts
    /\ sock' = r.W.sock
    /\ ephemeral' = r.W.eph
    /\ written' = Append(written, wMsg)
    /\ pumpPc' = "top"
    /\ UNCHANGED <<writeQueue, seq, intentionallyExit, pc, arg, tmp, ret,
                   producers, calls, accepted, taken, sunk, parsed, mList, wMsg>>
    /\ UNCHANGED <<lastCall, live, trip, chanVars, serialVars, supPc>>

\* _writeMsg when send() raises e inside _ser.write: what leaves write is
\* caught by neither except clause of _writeMsg and leaves loop, lines 151-153
WriteMsgFails(e) ==
    /\ pumpPc = "write"
    /\ openWritePort(World, Ser).ret
    /\ Connects(Ser) => ephemeral < MaxPorts
    /\ sock' = writeFails(World, Ser).sock
    /\ ephemeral' = writeFails(World, Ser).eph
    /\ lastCall' = [op |-> "write", s |-> Ser, b |-> Pack(wMsg), ret |-> Empty,
                    sent |-> <<>>, addr |-> NoAddr,
                    pre |-> Before("write", Ser),
                    raised |-> exceptException(e), cond |-> e]
    /\ written' = Append(written, wMsg)
    /\ pumpPc' = IF exceptException(e) = "none" THEN "top" ELSE "raised"
    /\ UNCHANGED <<writeQueue, seq, intentionallyExit, pc, arg, tmp, ret,
                   producers, calls, accepted, taken, sunk, parsed, mList, wMsg>>
    /\ UNCHANGED <<live, trip, chanVars, serialVars, supPc>>

\* what msg.pack() raises on a message it cannot serialize: the codec's
\* MAVError, or an exception of another class
PackErrors == {"MAVError", "Exception"}

\* the except clauses of _writeMsg with line 224 left out
exceptQueueEmpty(e) == IF e = "queue.Empty" THEN "none" ELSE e

\* the except clauses of _writeMsg, lines 221 and 224: what passes them
exceptMAVError(e) == IF e \in {"queue.Empty", "MAVError"} THEN "none" ELSE e

\* _writeMsg when msg.pack() raises e, line 212: _ser.write is not reached;
\* a MAVError is caught at line 224, anything else leaves _writeMsg and,
\* lines 151-153, loop.  The call is recorded as the last call (history)
PackFails(e) ==
    /\ pumpPc = "write"
    /\ pumpPc' = IF exceptMAVError(e) = "none" THEN "print" ELSE "raised"
    /\ lastCall' = [op |-> "pack", s |-> Ser, b |-> Empty, ret |-> Empty,
                    sent |-> <<>>, addr |-> NoAddr,
                    pre |-> Before("pack", Ser),
                    raised |-> exceptMAVError(e), cond |-> e]
    /\ UNCHANGED pumpOnly
    /\ UNCHANGED <<sock, ephemeral, live, trip, chanVars, serialVars, supPc>>

\* _writeMsg, lines 225-227: print(e), return False
PrintError ==
    /\ pumpPc = "print"
    /\ pumpPc' = "top"
    /\ UNCHANGED pumpOnly
    /\ UNCHANGED <<sockVars, chanVars, serialVars, supPc>>

-----------------------------------------------------------------------------
(* example_autoRecovery.py: mavClass.loop, the supervising loop around      *)
(* mavThread.loop, run by the pump thread                                   *)

\* the attributes of a mavThread object that can be called
mavThreadAttrs ==
    {"stopLoop", "queueOutputMsg", "loop", "_loopInternals",
     "_processReadMsg", "_getWriteMsg", "_writeMsg", "_readMsg"}

\* Thread( target = mavObj.loop ).start()
SupStart ==
    /\ supPc = "new"
    /\ supPc' = "while"
    /\ UNCHANGED <<pumpOnly, pumpPc, sockVars, chanVars, serialVars>>

\* line 21: while not self._intentionallyExit; line 23: super().loop()
SupWhile ==
    /\ supPc = "while"
    /\ IF intentionallyExit
       THEN supPc' = "returned" /\ pumpPc' = pumpPc
       ELSE supPc' = "inLoop" /\ pumpPc' = "entry"
    /\ UNCHANGED <<pumpOnly, sockVars, chanVars, serialVars>>

\* line 23: super().loop() has returned
SupLoopReturned ==
    /\ supPc = "inLoop" /\ pumpPc = "closed"
    /\ supPc' = "while"
    /\ UNCHANGED <<pumpOnly, pumpPc, sockVars, chanVars, serialVars>>

\* the sink raises: mavThread.py, line 170, then lines 151-153, the error
\* leaves mavThread.loop
SinkRaises ==
    /\ pumpPc = "process"
    /\ pumpPc' = "raised"
    /\ UNCHANGED <<pumpOnly, supPc, sockVars, chanVars, serialVars>>

\* lines 24-25: except, self._ser.closePort()
SupExcept ==
    LET W == closePort(World, Ser) IN
    /\ supPc = "inLoop" /\ pumpPc = "raised"
    /\ sock' = W.sock
    /\ supPc' = "sleep"
    /\ UNCHANGED <<pumpOnly, pumpPc, ephemeral, lastCall, live, trip, chanVars, serialVars>>

\* line 27: time.sleep(1)
SupSleep ==
    /\ supPc = "sleep"
    /\ supPc' = "restart"
    /\ UNCHANGED <<pumpOnly, pumpPc, sockVars, chanVars, serialVars>>

\* line 28: self.startRWLoop(); an attribute the object does not have
\* raises AttributeError, inside the except clause, and the error leaves
\* mavClass.loop
SupRestart ==
    /\ supPc = "restart"
    /\ supPc' = IF "startRWLoop" \in mavThreadAttrs THEN "while" ELSE "dead"
    /\ UNCHANGED <<pumpOnly, pumpPc, sockVars, chanVars, serialVars>>

Supervisor ==
    \/ SupStart
    \/ SupWhile
    \/ SupLoopReturned
    \/ SupExcept
    \/ SupSleep
    \/ SupRestart

-----------------------------------------------------------------------------
(* Specifications *)

SockInit ==
    /\ sock = [s \in SockIds |->
                 CASE s = "A" -> mavSocket(NoAddr, AddrA)
                   [] s = "B" -> mavSocket(AddrA, NoAddr)
                   [] s = "R" -> mavSocket(AddrR, AddrR)]
    /\ ephemeral = 0
    /\ lastCall = [op |-> "none", s |-> "R", b |-> Empty, ret |-> Empty,
                   sent |-> <<>>, addr |-> NoAddr, pre |-> sock["R"],
                   raised |-> "none", cond |-> "none"]
    /\ trip = [phase |-> "start", bytes |-> Empty, bound |-> FALSE]

ThreadInit ==
    /\ writeQueue = <<>>
    /\ seq = 0
    /\ intentionallyExit = FALSE
    /\ pc = [p \in Producers |-> "idle"]
    /\ arg = [p \in Producers |-> [msg |-> NoMsg, priority |-> 5]]
    /\ tmp = [p \in Producers |-> 0]
    /\ ret = [p \in Producers |-> <<>>]
    /\ calls = 0
    /\ accepted = <<>>
    /\ pumpPc = "new"
    /\ mList = <<>>
    /\ wMsg = NoMsg
    /\ taken = <<>>
    /\ written = <<>>
    /\ sunk = <<>>
    /\ parsed = <<>>
    /\ supPc = "new"

ChanInit ==
    /\ thr = [t \in Threads |-> IdleThread]
    /\ lock = [read |-> "free", write |-> "free"]
    /\ serCall = NoSerCall

\* the application uses sockets only
SocketsOnly == ChanInit /\ serialObj = NoSerial

\* the loop thread and two producer threads
Init == SockInit /\ ThreadInit /\ SocketsOnly /\ live = {Ser} /\ producers = Producers

\* the loop thread and one producer thread
InitOneProducer ==
    SockInit /\ ThreadInit /\ SocketsOnly /\ live = {Ser} /\ producers = {"p1"}

\* two threads calling read(), write() and flush() on one channel
InitThreads ==
    SockInit /\ ThreadInit /\ SocketsOnly /\ live = {Chan} /\ producers = {}

\* calls made on the sockets by one thread, and the outside peer, on the
\* fixtures of test_mavSocket.py: A and B pointing at each other, or R alone
InitSocket ==
    /\ SockInit /\ ThreadInit /\ SocketsOnly /\ producers = {}
    /\ live \in {{"A", "B"}, {"R"}}

Producer ==
    \/ \E p \in Producers, m \in Payloads(calls + 1), priority \in Priorities :
           QueueOutputMsg(p, m, priority)
    \/ \E p \in Producers : BuildTuple(p)
    \/ \E p \in Producers : Put(p)
    \/ \E p \in Producers : LoadSeq(p)
    \/ \E p \in Producers : StoreSeq(p)

\* a stopLoop() call made once the pump thread has been started
StopLoopStarted == pumpPc # "new" /\ StopLoop

\* loop(), from its first statement on
LoopBody ==
    \/ LoopEntry
    \/ LoopOpen
    \/ LoopTop
    \/ ReadMsg
    \/ GetWriteMsg
    \/ ProcessReadMsg
    \/ WriteMsg

Pump ==
    \/ StartLoop
    \/ LoopEntry
    \/ LoopOpen
    \/ LoopTop
    \/ ReadMsg
    \/ GetWriteMsg
    \/ ProcessReadMsg
    \/ WriteMsg

Next == Producer \/ Pump \/ StopLoop

NextSocket ==
    \/ \E s \in live : OpenPort(s)
    \/ \E s \in live : ClosePort(s)
    \/ \E s \in live : Read(s)
    \/ \E s \in live, b \in Wire : Write(s, b)
    \/ \E s \in live : Flush(s)
    \/ \E s \in live : PeerSend(s, PeerBytes)

\* the transports under transient conditions: the loop thread on R with a
\* producer thread, or calls on one socket with the outside peer, or calls
\* on a mavSerial
InitTransient ==
    /\ SockInit /\ ThreadInit /\ ChanInit
    /\ \/ live = {Ser} /\ producers = {"p1"} /\ serialObj = NoSerial
       \/ live \in {{"A"}, {"B"}} /\ producers = {} /\ serialObj = NoSerial
       \/ live = {} /\ producers = {} /\ serialObj = mavSerial

NextTransient ==
    \/ Ser \in live /\ (Producer \/ Pump \/ StopLoopStarted)
    \/ Ser \in live /\ \E e \in SendErrors : WriteMsgFails(e)
    \/ Ser \notin live /\ NextSocket
    \/ Ser \notin live /\ \E s \in live, b \in Wire, e \in SendErrors :
                              WriteFails(s, b, e)
    \/ Serial

\* the loop thread on R, one producer thread, stopLoop() calls, messages
\* the codec cannot serialize and datagrams the kernel cannot send
NextWriteFail ==
    \/ Producer
    \/ Pump
    \/ StopLoopStarted
    \/ \E e \in PackErrors : PackFails(e)
    \/ PrintError
    \/ \E e \in SendErrors : WriteMsgFails(e)

NextThreads ==
    \/ \E t \in Threads : ThreadRead(t, "read")
    \/ \E t \in Threads : ThreadRead(t, "flush")
    \/ \E t \in Threads, b \in Wire : ThreadWrite(t, b)
    \/ \E t \in Threads : ThreadStep(t)
    \/ PeerSend(Chan, PeerBytes)

\* two threads calling read() and write() on one channel that is not open,
\* the lazy opening taken step by step
NextLazy ==
    \/ \E t \in Threads : OpenReadTest(t)
    \/ \E t \in Threads : ReadCreate(t)
    \/ \E t \in Threads, b \in Wire : OpenWriteTest(t, b)
    \/ \E t \in Threads : WriteCreate(t)
    \/ \E t \in Threads : ThreadStep(t)

\* two threads calling read(), write() and closePort() on one channel
NextClose ==
    \/ \E t \in Threads : ThreadRead(t, "read")
    \/ \E t \in Threads, b \in Wire : ThreadWrite(t, b)
    \/ \E t \in Threads : ThreadStep(t)
    \/ \E t \in Threads : ThreadClosePort(t)

\* two threads calling read(), write() and closePort() on one channel: a
\* mavSocket, or a mavSerial with its device
InitLocks ==
    /\ SockInit /\ ThreadInit /\ ChanInit /\ producers = {}
    /\ \/ live = {Chan} /\ serialObj = NoSerial
       \/ live = {} /\ serialObj = mavSerial

NextLocks ==
    \/ Chan \in live /\ NextClose
    \/ \E t \in Threads : SerialThreadRead(t)
    \/ \E t \in Threads, b \in SerialBytes : SerialThreadWrite(t, <<b>>)
    \/ \E t \in Threads : SerialThreadStep(t)
    \/ SerialOpenPort
    \/ SerialClosePort
    \/ \E x \in SerialBytes : SerialReceive(x)

\* the loop thread, started, one producer thread, and stopLoop() calls
NextPump == Producer \/ Pump \/ StopLoopStarted

\* the supervised loop thread, a sink that may raise, one producer thread,
\* and stopLoop() calls
NextSupervisor ==
    Producer \/ Supervisor \/ LoopBody \/ SinkRaises \/ StopLoopStarted

Spec == Init /\ [][Next]_vars

SpecOneProducer == InitOneProducer /\ [][Next]_vars

SpecSocket == InitSocket /\ [][NextSocket]_vars

\* the pump thread keeps being scheduled; the traffic is finite, the
\* producer makes MaxCalls calls at most
SpecPump == InitOneProducer /\ [][NextPump]_vars /\ WF_vars(Pump)

\* the supervised pump thread keeps being scheduled
SpecSupervisor ==
    InitOneProducer /\ [][NextSupervisor]_vars
        /\ WF_vars(Supervisor \/ LoopBody)

SpecWriteFail == InitOneProducer /\ [][NextWriteFail]_vars

\* every thread inside a call keeps being scheduled and gets the lock it
\* waits for at one of the times the lock is free
SpecLocks ==
    InitLocks /\ [][NextLocks]_vars
        /\ \A t \in Threads : SF_vars(ThreadStep(t) \/ SerialThreadStep(t))

SpecLazy == InitThreads /\ [][NextLazy]_vars

SpecClose == InitThreads /\ [][NextClose]_vars

SpecTransient == InitTransient /\ [][NextTransient]_vars

\* every thread inside a call keeps being scheduled and gets the lock it
\* waits for
SpecThreads ==
    InitThreads /\ [][NextThreads]_vars
        /\ \A t \in Threads : SF_vars(ThreadStep(t))

-----------------------------------------------------------------------------
(* Properties of the write queue *)

\* entries i and j of taken, i returned first, were pending together when i
\* was returned: j had been put by then
PendingTogether(i, j) ==
    /\ i \in DOMAIN taken /\ j \in DOMAIN taken
    /\ i < j
    /\ taken[j].e.n <= taken[i].had

\* C1: successive dequeues return the pending entries in non-increasing
\* priority value, the higher number first: of two entries pending together
\* the one returned first has the priority value that is not the smaller
C1_HigherNumberFirst ==
    \A i, j \in DOMAIN taken :
        PendingTogether(i, j) => taken[i].e.priority >= taken[j].e.priority

C3_FifoWithinPriority ==
    \A i, j \in DOMAIN taken :
        PendingTogether(i, j) /\ taken[i].e.priority = taken[j].e.priority
            => taken[i].e.msg.id < taken[j].e.msg.id

\* C3: two entries of equal priority, pending together, have been returned
C3_Witness ==
    /\ producers = {"p1"}
    /\ \E i, j \in DOMAIN taken :
           PendingTogether(i, j) /\ taken[i].e.priority = taken[j].e.priority

\* C4: every accepted entry carries a sequence number no other accepted
\* entry carries, and once no queueOutputMsg call is in progress the
\* counter equals the number of accepted entries
C4_SeqNeverReused ==
    /\ \A i, j \in DOMAIN accepted :
           i # j => accepted[i].seq # accepted[j].seq
    /\ (\A p \in Producers : pc[p] = "idle") => seq = Len(accepted)

\* the step of a queueOutputMsg call whose payload is no MAVLink_message
RejectStep(p) ==
    /\ calls' = calls + 1
    /\ arg'[p].msg.id = calls'
    /\ arg'[p].msg.type # "MAVLink_message"

-----------------------------------------------------------------------------
(* Properties of mavSocket *)

ListenOnly(s) == sock[s].listenAddress # NoAddr /\ sock[s].broadcastAddress = NoAddr
PeerOnly(s) == sock[s].listenAddress = NoAddr /\ sock[s].broadcastAddress # NoAddr

\* C6: a write() made while the write address is unknown hands nothing to
\* the kernel and leaves the object as it was: flags, addresses and sockets
C6_WriteWithoutPeerIsNoOp ==
    (lastCall.op = "write" /\ lastCall.pre.writeAddress = NoAddr) =>
        /\ lastCall.sent = <<>>
        /\ sock[lastCall.s] = lastCall.pre

\* C6: write() was called on the opened listen-only socket before any
\* datagram arrived
C6_Witness ==
    /\ lastCall.op = "write" /\ lastCall.s = "B"
    /\ lastCall.pre.writeAddress = NoAddr
    /\ lastCall.pre.rConnected

\* C7, first part: on a listen-only socket the write address is the sender
\* of the first datagram read, and a write() made once it is known leaves
\* the write direction bound and sends to that sender
C7_LearnsFirstSender ==
    \A s \in live : ListenOnly(s) =>
        /\ sock[s].writeAddress = sock[s].heardFrom
        /\ (lastCall.op = "write" /\ lastCall.s = s
                /\ lastCall.pre.writeAddress # NoAddr) =>
              /\ sock[s].wConnected
              /\ Len(lastCall.sent) = 1
              /\ lastCall.sent[1].to = sock[s].heardFrom
              /\ lastCall.sent[1].m = lastCall.b

\* C7 as claimed: the above, and a read() that returns no data does not
\* learn a write address
C7_EmptyReadLearnsNothing ==
    /\ C7_LearnsFirstSender
    /\ (lastCall.op = "read" /\ ListenOnly(lastCall.s)
            /\ lastCall.ret = Empty /\ lastCall.pre.writeAddress = NoAddr)
          => sock[lastCall.s].writeAddress = NoAddr

\* C7 as amended: the above, and a read() that receives no datagram does not
\* learn a write address, while one that receives a datagram, an empty one
\* too, learns its sender
C7_NoDatagramLearnsNothing ==
    /\ C7_LearnsFirstSender
    /\ (lastCall.op = "read" /\ ListenOnly(lastCall.s)
            /\ lastCall.pre.writeAddress = NoAddr) =>
          /\ lastCall.addr = NoAddr => sock[lastCall.s].writeAddress = NoAddr
          /\ lastCall.addr # NoAddr =>
                sock[lastCall.s].writeAddress = lastCall.addr

\* C7: the listen-only socket has read datagrams of two senders and then
\* written to the first
C7_Witness ==
    /\ lastCall.op = "write" /\ lastCall.s = "B"
    /\ lastCall.sent # <<>>
    /\ lastCall.sent[1].to = AddrX
    /\ sock["B"].heardFrom = AddrX
    /\ sock["A"].wConnected

\* C8: on a socket constructed with a send-to address only, from the first
\* connect of the write socket on, the listen address is the local address
\* that connect assigned, and a read() made from then on leaves the read
\* socket bound to the listen address
C8_SelfDiscovery ==
    \A s \in live : PeerOnly(s) =>
        /\ sock[s].connects = 0 =>
              sock[s].readAddress = NoAddr /\ ~sock[s].rConnected
        /\ sock[s].connects = 1 =>
              /\ sock[s].readAddress = sock[s].sWrite.addr
              /\ sock[s].rConnected => sock[s].sRead.addr = sock[s].sWrite.addr
        /\ (lastCall.op = "read" /\ lastCall.s = s
                /\ lastCall.pre.connects >= 1) =>
              /\ sock[s].rConnected
              /\ sock[s].sRead.addr = sock[s].readAddress

\* C8: after its first write() the send-to-only socket has read, and its
\* read socket is bound to the local address of the write socket
C8_Witness ==
    /\ lastCall.op = "read" /\ lastCall.s = "A"
    /\ ~lastCall.pre.rConnected
    /\ sock["A"].connects = 1
    /\ sock["A"].rConnected
    /\ sock["A"].sRead.addr = sock["A"].sWrite.addr

\* C9 as claimed: after A wrote, B read what A sent and B wrote, the read on
\* A returns the bytes B wrote
C9_RoundTrip ==
    trip.phase = "aRead" => lastCall.ret = trip.bytes

\* C9 as amended: it does when A's read socket was bound, by a read() on A,
\* before B wrote
C9_RoundTripOnceBound ==
    (trip.phase = "aRead" /\ trip.bound) => lastCall.ret = trip.bytes

\* C9: the round trip was made with bytes that are not empty
C9_Witness ==
    /\ trip.phase = "aRead" /\ trip.bound
    /\ trip.bytes # Empty
    /\ sock["B"].listenAddress = sock["A"].broadcastAddress
    /\ sock["B"].broadcastAddress = NoAddr

\* the directions the constructor arguments ask for are bound
ConfiguredBound(s) ==
    /\ sock[s].listenAddress # NoAddr => sock[s].sRead.st = "open"
    /\ sock[s].broadcastAddress # NoAddr => sock[s].sWrite.st = "open"

\* C10 as claimed: isOpen() is true exactly when every configured direction
\* is bound
C10_OpenWhenConfiguredBound ==
    \A s \in live : isOpen(World, s) <=> ConfiguredBound(s)

\* C10 as amended: isOpen() is true exactly when the read socket and the
\* write socket are both bound, whichever addresses were configured; with
\* both addresses configured that is when every configured direction is
\* bound
C10_OpenWhenBothBound ==
    \A s \in live :
        /\ isOpen(World, s) <=>
              (sock[s].sRead.st = "open" /\ sock[s].sWrite.st = "open")
        /\ (sock[s].listenAddress # NoAddr /\ sock[s].broadcastAddress # NoAddr)
              => (isOpen(World, s) <=> ConfiguredBound(s))

\* C10: the listen-only socket has its one configured direction bound and
\* is not open
C10_Witness ==
    /\ "B" \in live
    /\ sock["B"].sRead.st = "open"
    /\ lastCall.op = "openPort" /\ lastCall.s = "B"
    /\ ~isOpen(World, "B")

\* C11, the states: a listen-only socket is not open while it was never
\* opened, not open after an openPort() made before any datagram was read,
\* and not open after a read() that received a datagram while the write
\* direction was not bound
C11_NotOpenBeforeWrite ==
    \A s \in live : ListenOnly(s) =>
        /\ (sock[s].sRead.st = "none" /\ sock[s].sWrite.st = "none")
              => ~isOpen(World, s)
        /\ (lastCall.op = "openPort" /\ lastCall.s = s
                /\ lastCall.pre.writeAddress = NoAddr) => ~isOpen(World, s)
        /\ (lastCall.op = "read" /\ lastCall.s = s /\ lastCall.addr # NoAddr
                /\ ~lastCall.pre.wConnected) => ~isOpen(World, s)

C12_CloseIdempotent ==
    /\ lastCall.op = "closePort" =>
          /\ lastCall.raised = "none"
          /\ ~sock[lastCall.s].rConnected /\ ~sock[lastCall.s].wConnected
          /\ ~isOpen(World, lastCall.s)
    /\ \A s \in live :
           LET W1 == closePort(World, s) IN
           /\ closePortRaises(World, s) = "none"
           /\ ~W1.sock[s].rConnected /\ ~W1.sock[s].wConnected
           /\ ~isOpen(W1, s)
           /\ closePortRaises(W1, s) = "none"
           /\ closePort(W1, s) = W1

\* C12: closePort() was called on a socket that had been open in both
\* directions and was closed already
C12_Witness ==
    /\ lastCall.op = "closePort"
    /\ lastCall.pre.sRead.st = "closed" /\ lastCall.pre.sWrite.st = "closed"
    /\ ~lastCall.pre.rConnected /\ ~lastCall.pre.wConnected

\* C13: openPort() called on a mavSocket that is open in both directions
\* fails with an already-open error and leaves the object as it was
C13_OpenTwiceFails ==
    (lastCall.op = "openPort" /\ lastCall.pre.rConnected
        /\ lastCall.pre.wConnected) =>
        /\ lastCall.raised = "Port already open"
        /\ [sock[lastCall.s] EXCEPT !.sRead.buf = <<>>] = lastCall.pre

\* C14: right after a flush() during which nothing arrived, whatever was
\* buffered before it, a read() returns b''
C14_FlushDiscardsAll ==
    lastCall.op = "flush" => read(World, lastCall.s).ret = Empty

\* C15: a flush() that was started returns, also while the peer keeps
\* sending: the thread making it leaves the call
C15_FlushTerminates ==
    \A t \in Threads : (thr[t].op = "flush") ~> (thr[t].op = "none")

\* the threads inside the receive section, and inside the send section
Receiving == {t \in Threads : thr[t].pc \in {"rRecv", "rRelease"}}
Sending == {t \in Threads : thr[t].pc \in {"wSend", "wRelease"}}

\* C19: at most one thread is inside the receive section and at most one
\* inside the send section, and a thread that waits to enter a section
\* can enter whenever no thread is inside that same section, whoever is
\* inside the other one
C19_LockPerDirection ==
    /\ Cardinality(Receiving) <= 1
    /\ Cardinality(Sending) <= 1
    /\ \A t \in Threads :
           (thr[t].pc = "wAcquire" /\ Sending = {}) => CanAcquire("write")
    /\ \A t \in Threads :
           (thr[t].pc = "rAcquire" /\ Receiving = {}) => CanAcquire("read")

\* C19: one thread holds the read lock inside the receive section while
\* the other holds the write lock inside the send section
C19_Witness ==
    /\ thr["t1"].pc = "rRecv" /\ lock.read = "t1"
    /\ thr["t2"].pc = "wSend" /\ lock.write = "t2"

-----------------------------------------------------------------------------
(* Properties of the loop and of the supervising loop *)

\* C16: after a stopLoop() call made once the pump thread was started, the
\* loop exits, and it exits from the test at the top of an iteration
C16_StopEventuallyExits ==
    /\ intentionallyExit ~> (pumpPc = "closed")
    /\ [][(pumpPc # "closed" /\ pumpPc' = "closed") => pumpPc = "top"]_vars

\* the pump loop is inside an iteration, under the supervising loop
PumpRunning ==
    /\ supPc = "inLoop"
    /\ pumpPc \in {"top", "read", "get", "process", "write"}

\* C17: after an error has left the pump loop, unless a stop is requested,
\* the channel is open again and the pump loop is running again
C17_RecoversAfterFailure ==
    (pumpPc = "raised" /\ ~intentionallyExit)
        ~> (intentionallyExit \/ (PumpRunning /\ isOpen(World, Ser)))

\* C18: after a stopLoop() call made once the supervised pump thread was
\* started, the supervising loop returns
C18_StopIsFinal ==
    intentionallyExit ~> (supPc = "returned")

-----------------------------------------------------------------------------
(* Properties of the loop iteration *)

\* C21: an iteration that read no message and dequeued no item is idle: it
\* does not call the sink (it sleeps, line 166, and returns)
C21_IdleIterationSkipsSink ==
    [][(pumpPc = "process" /\ mList = <<>> /\ wMsg = NoMsg)
          => ~ProcessReadMsg]_vars

\* C22: the sink is called with a non-empty batch only
C22_SinkOnlyNonEmptyBatch == [][ProcessReadMsg => mList # <<>>]_vars

\* the datagrams the outside peer sends to the pump's channel: frames of two
\* messages, and bytes that are no frame
InboundBytes ==
    {Pack([type |-> "MAVLink_message", id |-> i]) : i \in {7, 8}} \cup {<<"x">>}

\* messages the outside peer sends in one behaviour
MaxInbound == 3

\* the loop thread on R with an empty write queue, stopLoop() calls, and the
\* outside peer sending to R
InitInbound ==
    SockInit /\ ThreadInit /\ SocketsOnly /\ live = {Ser} /\ producers = {}

NextInbound ==
    \/ StartLoop
    \/ LoopEntry
    \/ LoopOpen
    \/ LoopTop
    \/ ReadMsg
    \/ GetWriteMsg
    \/ ProcessReadMsg
    \/ StopLoopStarted
    \/ \E b \in InboundBytes :
          /\ Len(parsed) + Len(sock[Ser].sRead.buf) < MaxInbound
          /\ PeerSend(Ser, b)

SpecInbound == InitInbound /\ [][NextInbound]_vars

\* the batch _readMsg is collecting or has returned, and the sink has not got
Pending == IF pumpPc \in {"read", "get", "process"} THEN mList ELSE <<>>

\* C23: the messages passed to the sink, batch after batch, followed by the
\* batch in hand, are the messages parsed from the channel, in the order they
\* were parsed, as long as no error has left the loop
C23_InboundOrderPreserved ==
    pumpPc # "raised" => sunk \o Pending = parsed

\* C23: three messages reached the sink, the first two different, the last
\* batch holding two of them
C23_Witness ==
    /\ pumpPc = "top"
    /\ Len(sunk) = 3 /\ sunk[1] # sunk[2]
    /\ Len(mList) = 2 /\ mList[1] # mList[2]
    /\ sunk = parsed

\* the entries put on the queue that get_nowait has returned
Dequeued == {taken[i].e.n : i \in DOMAIN taken}

\* the queue after a dequeue: an entry that was dequeued is never in the
\* queue again, the queue and the dequeued entries together are the accepted
\* entries, and a message is handed to the channel write at most once and
\* only after its dequeue
AtMostOneAttempt ==
    /\ \A i \in DOMAIN writeQueue : writeQueue[i].n \notin Dequeued
    /\ Len(writeQueue) + Len(taken) = Len(accepted)
    /\ \A i, j \in DOMAIN written : i # j => written[i] # written[j]
    /\ \A i \in DOMAIN written :
          \E j \in DOMAIN taken : taken[j].e.msg = written[i]
    /\ pumpPc \in {"print", "raised"} =>
          /\ \A i \in DOMAIN written : written[i] # wMsg
          /\ \A i \in DOMAIN writeQueue : writeQueue[i].msg # wMsg

\* C24, as claimed: a dequeued item whose serialization or write fails is
\* dropped and the loop goes on: no error leaves the loop, and the item had
\* one attempt at most and is not put back
C24_FailureKeepsLoopRunning == pumpPc # "raised" /\ AtMostOneAttempt

\* C24, amended: a dequeued item whose serialization fails with MAVError, or
\* whose send() fails inside the channel's write, is dropped and the loop
\* goes on to the report and the next iteration; an exception of another
\* class leaves the loop, and nothing else does; in every case the item had
\* one attempt at most and is not put back
C24_FailedItemIsDropped ==
    /\ AtMostOneAttempt
    /\ (lastCall.op = "pack" /\ lastCall.cond = "MAVError") =>
          pumpPc # "raised"
    /\ (lastCall.op = "write" /\ lastCall.cond \in SendErrors) =>
          pumpPc # "raised"
    /\ pumpPc = "print" => lastCall.op = "pack" /\ lastCall.cond = "MAVError"
    /\ pumpPc = "raised" =>
          lastCall.op = "pack" /\ lastCall.cond \notin {"MAVError", "queue.Empty"}

\* C24: two items were dequeued; the serialization of one failed, so one
\* only was handed to the channel write, and its send() was refused; the
\* queue is empty and the loop is in its next iteration
C24_Witness ==
    /\ Len(taken) = 2 /\ Len(written) = 1
    /\ written[1] = taken[2].e.msg
    /\ lastCall.op = "write" /\ lastCall.cond = "ConnectionRefusedError"
    /\ writeQueue = <<>>
    /\ pumpPc = "read"

\* the item _loopInternals holds between its dequeue and its write
InHand(e) == pumpPc \in {"process", "write"} /\ wMsg = e.msg

\* C25: every accepted entry is still queued, or is in the hand of the
\* iteration that dequeued it, or has been handed to the channel write
C25_NoItemLost ==
    \A k \in DOMAIN accepted :
        \/ \E i \in DOMAIN writeQueue : writeQueue[i].n = accepted[k].n
        \/ InHand(accepted[k])
        \/ \E i \in DOMAIN written : written[i] = accepted[k].msg

-----------------------------------------------------------------------------
(* Properties of the mavSocket across open cycles *)

\* C26: on a socket constructed with a peer address only, whenever the write
\* direction is connected the listen address is the local address of the
\* write socket, and a bound read socket is bound to it
C26_ListenIsWriteLocal ==
    \A s \in live :
        (PeerOnly(s) /\ isUDP(World, s) /\ sock[s].wConnected) =>
            /\ sock[s].readAddress = sock[s].sWrite.addr
            /\ sock[s].rConnected => sock[s].sRead.addr = sock[s].sWrite.addr

\* C27: the peer address is set at most once: a call made when it is known
\* leaves it as it was, a configured one is the one in use, and a learnt one
\* is the sender of the first datagram read
C27_PeerAddressSetOnce ==
    /\ lastCall.pre.writeAddress # NoAddr =>
          sock[lastCall.s].writeAddress = lastCall.pre.writeAddress
    /\ \A s \in live :
          /\ sock[s].broadcastAddress # NoAddr =>
                sock[s].writeAddress = sock[s].broadcastAddress
          /\ (sock[s].broadcastAddress = NoAddr /\ sock[s].heardFrom # NoAddr) =>
                sock[s].writeAddress = sock[s].heardFrom

\* C27: the listen-only socket, its peer address learnt, has read a datagram
\* of another sender
C27_Witness ==
    /\ lastCall.op = "read" /\ lastCall.s = "B"
    /\ lastCall.pre.writeAddress # NoAddr
    /\ lastCall.addr # NoAddr
    /\ lastCall.addr # lastCall.pre.writeAddress

-----------------------------------------------------------------------------
(* Properties of the mavSocket called by several threads *)

\* C28: whatever closePort() calls other threads make, no recvfrom() and no
\* send() is made on a socket that was closed, so no read() and no write()
\* raises
C28_CloseNeverBreaksTransfer ==
    \A t \in Threads : thr[t].cond = "none" /\ thr[t].raised = "none"

\* C29: in one open cycle one socket is made for each direction: a thread
\* about to make the socket of a direction finds that direction unbound, and
\* connect() is called once
C29_OneSocketPerDirection ==
    /\ \A t \in Threads : thr[t].pc = "rCreate" => ~sock[Chan].rConnected
    /\ \A t \in Threads : thr[t].pc = "wCreate" => ~sock[Chan].wConnected
    /\ sock[Chan].connects <= 1

InsideRead == {"rRecv", "rRelease", "srRead", "srRelease"}
InsideWrite == {"wSend", "wRelease", "swWrite", "swRelease"}
Waiting == {"rAcquire", "wAcquire", "srAcquire", "swAcquire"}

====
